---- MODULE Spec2Model ----
(***************************************************************************)
(* Backtest simulation engine of backend/app/services/backtesting.py.      *)
(*                                                                         *)
(* Python floats are modelled as exact rationals [n |-> Int, d |-> Nat]    *)
(* in lowest terms (d > 0), so every identity below is the identity of the *)
(* real-number computation the code performs; floating rounding is not     *)
(* modelled.  Python lists are 0-based: prices[i] is closes[i + 1] here.   *)
(***************************************************************************)
EXTENDS Integers, Sequences, FiniteSets, TLC

(***************************************************************************)
(* Bounds of the enumeration.                                              *)
(***************************************************************************)
MaxBars == 4          \* longest close series of a run
MaxPrice == 2         \* closes range over 0..MaxPrice
MaxPeriod == 2        \* largest strategy window drawn for the parameters
RateDen == 4          \* the non-zero fractional rate drawn is 1/RateDen
MaxCurve == 4         \* longest equity curve handed to the metrics calculator alone
MaxTrades == 2        \* longest trade list handed to the metrics calculator alone

(***************************************************************************)
(* Rational arithmetic standing for Python float arithmetic.               *)
(***************************************************************************)
Abs(a) == IF a < 0 THEN -a ELSE a

RECURSIVE GCD(_, _)
GCD(a, b) == IF b = 0 THEN a ELSE GCD(b, a % b)

Norm(n, d) ==
    IF n = 0 THEN [n |-> 0, d |-> 1]
    ELSE LET g == GCD(Abs(n), d) IN [n |-> n \div g, d |-> d \div g]

Frac(n, d) == Norm(n, d)

R(a) == [n |-> a, d |-> 1]

Zero == R(0)

One == R(1)

RNeg(x) == [n |-> -x.n, d |-> x.d]

RAdd(x, y) ==
    LET g == GCD(x.d, y.d)
    IN Norm(x.n * (y.d \div g) + y.n * (x.d \div g), (x.d \div g) * y.d)

RSub(x, y) == RAdd(x, RNeg(y))

RMul(x, y) ==
    IF x.n = 0 \/ y.n = 0 THEN Zero
    ELSE LET g1 == GCD(Abs(x.n), y.d)
             g2 == GCD(Abs(y.n), x.d)
         IN [n |-> (x.n \div g1) * (y.n \div g2),
             d |-> (x.d \div g2) * (y.d \div g1)]

RInv(y) == IF y.n > 0 THEN [n |-> y.d, d |-> y.n] ELSE [n |-> -y.d, d |-> -y.n]

\* x / y for y # 0 (callers test the denominator as the code does)
RDiv(x, y) == RMul(x, RInv(y))

\* a/b < c/d for b, d > 0, by comparing the continued fractions (no products)
RECURSIVE FracLt(_, _, _, _)
FracLt(a, b, c, d) ==
    LET qa == a \div b
        qc == c \div d
        ra == a - qa * b
        rc == c - qc * d
    IN IF qa # qc THEN qa < qc
       ELSE IF rc = 0 THEN FALSE
       ELSE IF ra = 0 THEN TRUE
       ELSE FracLt(d, rc, b, ra)

RLt(x, y) == FracLt(x.n, x.d, y.n, y.d)

RLe(x, y) == ~RLt(y, x)

RGt(x, y) == RLt(y, x)

RMax(x, y) == IF RLt(x, y) THEN y ELSE x

\* round(x, 2) and round(x, 4): nearest multiple of 1/scale, ties to even
RoundTo(x, scale) ==
    LET y == RMul(x, R(scale))
        f == y.n \div y.d
        r == y.n - f * y.d
        q == IF 2 * r < y.d THEN f
             ELSE IF 2 * r > y.d THEN f + 1
             ELSE IF f % 2 = 0 THEN f ELSE f + 1
    IN Norm(q, scale)

Round2(x) == RoundTo(x, 100)

Round4(x) == RoundTo(x, 10000)

RECURSIVE RSum(_)
RSum(s) == IF s = <<>> THEN Zero ELSE RAdd(Head(s), RSum(Tail(s)))

\* builtin sum() / np.sum over a list of ints
RECURSIVE IntSum(_)
IntSum(s) == IF s = <<>> THEN 0 ELSE Head(s) + IntSum(Tail(s))

SeqMax(s) == CHOOSE m \in {s[j] : j \in 1..Len(s)} : \A j \in 1..Len(s) : s[j] <= m

SeqMin(s) == CHOOSE m \in {s[j] : j \in 1..Len(s)} : \A j \in 1..Len(s) : m <= s[j]

\* Python slice lst[a:b] (0-based, negative indices count from the end)
PyIndex(len, a) == IF a < 0 THEN (IF len + a < 0 THEN 0 ELSE len + a)
                   ELSE (IF a > len THEN len ELSE a)

PySlice(lst, a, b) ==
    LET lo == PyIndex(Len(lst), a)
        hi == PyIndex(Len(lst), b)
    IN IF lo >= hi THEN <<>> ELSE SubSeq(lst, lo + 1, hi)

\* np.mean of a non-empty list of ints
Mean(w) == Frac(IntSum(w), Len(w))

\* Len(w)^2 * np.var(w), an integer: Len(w) * sum(x^2) - sum(x)^2
VarNum(w) == Len(w) * IntSum([j \in 1..Len(w) |-> w[j] * w[j]]) - IntSum(w) * IntSum(w)

(***************************************************************************)
(* Strategies (signal generation).                                         *)
(***************************************************************************)
\* self.params.get(key, default)
Param(params, key, default) == IF key \in DOMAIN params THEN params[key] ELSE default

\* variant: the history guard is off by one (current_idx <= long_period)
MomentumSignalLate(params, prices, current_idx) ==
    LET short_period == Param(params, "short_period", 10)
        long_period == Param(params, "long_period", 30)
        sw == PySlice(prices, current_idx - short_period, current_idx)
        lw == PySlice(prices, current_idx - long_period, current_idx)
    IN IF current_idx <= long_period THEN "hold"
       ELSE IF sw = <<>> \/ lw = <<>> THEN "hold"
       ELSE IF RGt(Mean(sw), RMul(Mean(lw), Frac(102, 100))) THEN "buy"
       ELSE IF RLt(Mean(sw), RMul(Mean(lw), Frac(98, 100))) THEN "sell"
       ELSE "hold"

\* MomentumStrategy.generate_signals, body of the loop for one symbol
MomentumSignal(params, prices, current_idx) ==
    LET short_period == Param(params, "short_period", 10)
        long_period == Param(params, "long_period", 30)
        sw == PySlice(prices, current_idx - short_period, current_idx)
        lw == PySlice(prices, current_idx - long_period, current_idx)
    IN IF current_idx < long_period THEN "hold"
       ELSE IF sw = <<>> \/ lw = <<>> THEN "hold"    \* np.mean([]) is nan: both tests False
       ELSE IF RGt(Mean(sw), RMul(Mean(lw), Frac(102, 100))) THEN "buy"
       ELSE IF RLt(Mean(sw), RMul(Mean(lw), Frac(98, 100))) THEN "sell"
       ELSE "hold"

\* k * np.std(w) < x, decided without the square root (k >= 0)
StdBelow(k, w, x) ==
    /\ RGt(x, Zero)
    /\ RLt(RMul(RMul(k, k), Frac(VarNum(w), Len(w) * Len(w))), RMul(x, x))

\* MeanReversionStrategy.generate_signals, body of the loop for one symbol
MeanReversionSignal(params, prices, current_idx) ==
    LET period == Param(params, "period", 20)
        std_dev == Param(params, "std_dev", 2)
        window == PySlice(prices, current_idx - period, current_idx)
        current_price == R(prices[current_idx + 1])
    IN IF current_idx < period THEN "hold"
       ELSE IF window = <<>> THEN "hold"             \* nan bands: both tests False
       ELSE IF StdBelow(R(std_dev), window, RSub(Mean(window), current_price)) THEN "buy"
       ELSE IF StdBelow(R(std_dev), window, RSub(current_price, Mean(window))) THEN "sell"
       ELSE "hold"

\* variant: the history guard is off by one (current_idx < lookback - 1)
TrendFollowingSignalEarly(params, prices, current_idx) ==
    LET lookback == Param(params, "lookback", 20)
        window == PySlice(prices, current_idx - lookback, current_idx)
        current_price == prices[current_idx + 1]
    IN IF current_idx < lookback - 1 THEN "hold"
       ELSE IF window = <<>> THEN "ValueError"
       ELSE IF current_price > SeqMax(window) THEN "buy"
       ELSE IF current_price < SeqMin(window) THEN "sell"
       ELSE "hold"

\* TrendFollowingStrategy.generate_signals, body of the loop for one symbol;
\* max() of an empty window raises ValueError
TrendFollowingSignal(params, prices, current_idx) ==
    LET lookback == Param(params, "lookback", 20)
        window == PySlice(prices, current_idx - lookback, current_idx)
        current_price == prices[current_idx + 1]
    IN IF current_idx < lookback THEN "hold"
       ELSE IF window = <<>> THEN "ValueError"
       ELSE IF current_price > SeqMax(window) THEN "buy"
       ELSE IF current_price < SeqMin(window) THEN "sell"
       ELSE "hold"

StrategyTypes == {"momentum", "mean_reversion", "trend_following",
                  "arbitrage", "ml_based", "other"}

\* variant: an identifier with no registered class gets the last registered one
get_strategy_last_registered(strategy_type, params) ==
    [class |-> CASE strategy_type = "momentum" -> "MomentumStrategy"
                 [] strategy_type = "mean_reversion" -> "MeanReversionStrategy"
                 [] OTHER -> "TrendFollowingStrategy",
     params |-> params]

\* get_strategy: the class registered for the type, MomentumStrategy otherwise
get_strategy(strategy_type, params) ==
    [class |-> CASE strategy_type = "momentum" -> "MomentumStrategy"
                 [] strategy_type = "mean_reversion" -> "MeanReversionStrategy"
                 [] strategy_type = "trend_following" -> "TrendFollowingStrategy"
                 [] OTHER -> "MomentumStrategy",
     params |-> params]

\* strategy.generate_signals(price_data, i): one signal per symbol of price_data
generate_signals(strat, price_data, current_idx) ==
    [sym \in DOMAIN price_data |->
        CASE strat.class = "MomentumStrategy" ->
                 MomentumSignal(strat.params, price_data[sym], current_idx)
          [] strat.class = "MeanReversionStrategy" ->
                 MeanReversionSignal(strat.params, price_data[sym], current_idx)
          [] strat.class = "TrendFollowingStrategy" ->
                 TrendFollowingSignal(strat.params, price_data[sym], current_idx)]

(***************************************************************************)
(* State.                                                                  *)
(***************************************************************************)
VARIABLES
    cfg,            \* the engine and the request: symbols, strategy_type, parameters,
                    \* initial_capital, commission, slippage
    provider,       \* what the price series provider returns per requested symbol
    phase,          \* INITIALIZED, DATA_READY, SIMULATING, METRICS_COMPUTED, FAILED
    market_data,    \* run_backtest local: symbol -> [timestamps, close]
    strategy,       \* run_backtest local: the strategy instance
    date,           \* state.date, in days after start_date
    cash,           \* state.cash
    positions,      \* state.positions: symbol -> Position
    equity,         \* state.equity
    trades,         \* state.trades
    equity_curve,   \* state.equity_curve
    i,              \* bar index of the simulation loop
    pc,             \* position inside the loop body: "signals" or "exec"
    signals,        \* signals of the current bar
    k,              \* 1-based position in signals.items() of the next signal to execute
    result,         \* the returned BacktestResults
    error,          \* the exception that ended the run, "none" otherwise
    network,        \* whether the data API is configured, and how it answers each symbol
    data,           \* the mapping fetch_historical_data is building
    fetched,        \* number of symbols fetch_historical_data has dealt with
    tasks,          \* the other run_backtest coroutines of the event loop
    current,        \* the coroutine that is running
    job             \* the Backtest row of the API and its background task

engine == <<cfg, provider, network>>

fetch == <<data, fetched>>

scheduler == <<tasks, current>>

locals == <<market_data, strategy>>

state == <<date, cash, positions, equity, trades, equity_curve>>

loop == <<i, pc, signals, k>>

vars == <<cfg, provider, phase, market_data, strategy, date, cash, positions, equity,
          trades, equity_curve, i, pc, signals, k, result, error, network, data, fetched,
          tasks, current, job>>

(***************************************************************************)
(* Inputs.                                                                 *)
(***************************************************************************)
\* all close series of length 0..n over the given closes
RECURSIVE SeriesUpTo(_, _)
SeriesUpTo(n, closes) ==
    IF n = 0 THEN {<<>>}
    ELSE LET shorter == SeriesUpTo(n - 1, closes)
         IN shorter \cup {Append(s, c) : s \in {t \in shorter : Len(t) = n - 1}, c \in closes}

\* the provider's answer for one symbol: aligned timestamps and closes
Bars(closes) == [timestamps |-> [j \in 1..Len(closes) |-> j - 1], close |-> closes]

\* single-symbol feeds of up to MaxBars bars, and two-symbol feeds of one
\* common length, two bars shorter, whose closes are never zero
ProviderFeeds(symbols) ==
    IF Len(symbols) = 1
    THEN {[sym \in {symbols[1]} |-> Bars(s)] : s \in SeriesUpTo(MaxBars, 0..MaxPrice) \ {<<>>}}
    ELSE {[sym \in {symbols[1], symbols[2]} |-> Bars(IF sym = symbols[1] THEN p[1] ELSE p[2])] :
              p \in {q \in SeriesUpTo(MaxBars - 2, 1..MaxPrice)
                            \X SeriesUpTo(MaxBars - 2, 1..MaxPrice) :
                        Len(q[1]) = Len(q[2]) /\ Len(q[1]) > 0}}

SymbolLists == {<<"AAA">>, <<"AAA", "BBB">>}

StrategyRequests ==
    {[strategy_type |-> "momentum", parameters |-> [short_period |-> 1, long_period |-> l]] :
        l \in 2..MaxPeriod}
    \cup {[strategy_type |-> "mean_reversion", parameters |-> [period |-> p]] : p \in 1..MaxPeriod}
    \cup {[strategy_type |-> "trend_following", parameters |-> [lookback |-> p]] : p \in 1..MaxPeriod}

\* (slippage, commission): fractions below one, and a prohibitive commission
\* under which the cost of every buy exceeds the cash
RatePairs == {<<Zero, Zero>>, <<Frac(1, RateDen), Frac(1, RateDen)>>, <<Zero, R(10)>>}

Configs ==
    {[symbols |-> sy, strategy_type |-> sr.strategy_type, parameters |-> sr.parameters,
      initial_capital |-> R(100), slippage |-> rp[1], commission |-> rp[2]] :
        sy \in SymbolLists, sr \in StrategyRequests, rp \in RatePairs}

\* run_backtest(["AAA"], momentum, initial_capital=100000) with the engine's
\* default commission and slippage and no strategy parameters
RisingConfig ==
    [symbols |-> <<"AAA">>, strategy_type |-> "momentum", parameters |-> <<>>,
     initial_capital |-> R(100000), slippage |-> Frac(5, 10000), commission |-> Frac(1, 1000)]

\* the strictly increasing 40-bar series 100, 101, ..., 139
RisingFeed == [sym \in {"AAA"} |-> Bars([j \in 1..40 |-> 99 + j])]

\* the data API is configured and answers every symbol with status 200
Reachable(symbols) ==
    [configured |-> TRUE,
     outcome |-> [sym \in {symbols[j] : j \in 1..Len(symbols)} |-> "200"]]

NoResult == [status |-> "pending"]

NoStrategy == [class |-> "None", params |-> <<>>]

\* no Backtest row and no background task: run_backtest is called directly
NoJob == [status |-> "absent", results |-> "{}", task |-> "none"]

InitRun ==
    /\ phase = "INITIALIZED"
    /\ market_data = <<>>
    /\ strategy = NoStrategy
    /\ date = 0
    /\ cash = Zero
    /\ positions = <<>>
    /\ equity = Zero
    /\ trades = <<>>
    /\ equity_curve = <<>>
    /\ i = 0
    /\ pc = "signals"
    /\ signals = <<>>
    /\ k = 1
    /\ result = NoResult
    /\ error = "none"
    /\ data = <<>>
    /\ fetched = 0
    /\ job = NoJob

\* one coroutine and nothing else on the event loop
InitAlone ==
    /\ tasks = [saved |-> <<>>, after |-> <<>>, overlapped |-> FALSE]
    /\ current = 1

Init ==
    /\ cfg \in Configs
    /\ provider \in ProviderFeeds(cfg.symbols)
    /\ network = Reachable(cfg.symbols)
    /\ InitRun
    /\ InitAlone

(***************************************************************************)
(* run_backtest: data acquisition and set-up.                              *)
(***************************************************************************)
\* price_data = {symbol: data.get("close", [])}
price_data == [sym \in DOMAIN market_data |-> market_data[sym].close]

\* variant: the length of the first symbol's series alone
min_length_first_symbol ==
    IF DOMAIN market_data = {} THEN 0 ELSE Len(price_data[cfg.symbols[1]])

\* min(len(prices) for prices in price_data.values()) if price_data else 0
min_length ==
    IF DOMAIN market_data = {} THEN 0
    ELSE LET lens == {Len(price_data[sym]) : sym \in DOMAIN market_data}
         IN CHOOSE m \in lens : \A l \in lens : m <= l

\* variant: the empty result still reports the recorded equity curve
EmptyResultsKeepingCurve ==
    [total_return |-> Zero, sharpe_ratio |-> Zero, max_drawdown |-> Zero, win_rate |-> Zero,
     profit_factor |-> Zero, total_trades |-> 0, winning_trades |-> 0, losing_trades |-> 0,
     avg_win |-> Zero, avg_loss |-> Zero,
     equity_curve |-> [j \in 1..Len(equity_curve) |->
                         [timestamp |-> equity_curve[j].timestamp,
                          equity |-> equity_curve[j].equity]],
     trades |-> <<>>]

\* _empty_results
EmptyResults ==
    [total_return |-> Zero, sharpe_ratio |-> Zero, max_drawdown |-> Zero, win_rate |-> Zero,
     profit_factor |-> Zero, total_trades |-> 0, winning_trades |-> 0, losing_trades |-> 0,
     avg_win |-> Zero, avg_loss |-> Zero, equity_curve |-> <<>>, trades |-> <<>>]

\* the close series _generate_synthetic_data can return: one bar per weekday
\* of the date range (none when the range holds no weekday), positive closes
SyntheticCloses == SeriesUpTo(MaxBars - 3, 1..MaxPrice)

\* variant: the first failing symbol makes every symbol synthetic
FetchedSeriesAllOrNothing(symbol) ==
    IF network.configured /\ \A sym \in DOMAIN network.outcome : network.outcome[sym] = "200"
    THEN {provider[symbol]}
    ELSE {Bars(s) : s \in SyntheticCloses}

\* variant: the provider is never asked, every series is synthetic
FetchedSeriesSynthetic(symbol) == {Bars(s) : s \in SyntheticCloses}

\* the values data[symbol] can get in one iteration of the fetch loop: the
\* parsed answer on status 200, a synthetic series on any other status, on an
\* exception, and when no API is configured
FetchedSeries(symbol) ==
    IF network.configured /\ network.outcome[symbol] = "200"
    THEN {provider[symbol]}
    ELSE {Bars(s) : s \in SyntheticCloses}

\* one iteration of "for symbol in symbols" in fetch_historical_data
FetchSymbol ==
    /\ phase = "INITIALIZED"
    /\ fetched < Len(cfg.symbols)
    /\ LET symbol == cfg.symbols[fetched + 1]
       IN \E series \in FetchedSeries(symbol) :
             data' = [sym \in DOMAIN data \cup {symbol} |->
                        IF sym = symbol THEN series ELSE data[sym]]
    /\ fetched' = fetched + 1
    /\ UNCHANGED <<job, engine, scheduler, phase, locals, state, loop, result, error>>

\* market_data = await self.fetch_historical_data(symbols, start_date, end_date)
FetchData ==
    /\ phase = "INITIALIZED"
    /\ fetched >= Len(cfg.symbols)
    /\ market_data' = data
    /\ phase' = "DATA_READY"
    /\ UNCHANGED <<job, engine, fetch, scheduler, strategy, state, loop, result, error>>

\* strategy and BacktestState construction, price_data, min_length and the
\* early return of the empty result
BeginSimulation ==
    /\ phase = "DATA_READY"
    /\ strategy' = get_strategy(cfg.strategy_type, cfg.parameters)
    /\ date' = 0
    /\ cash' = cfg.initial_capital
    /\ equity' = cfg.initial_capital
    /\ positions' = <<>>
    /\ trades' = <<>>
    /\ equity_curve' = <<>>
    /\ IF min_length = 0
       THEN /\ result' = EmptyResults
            /\ phase' = "METRICS_COMPUTED"
       ELSE /\ result' = result
            /\ phase' = "SIMULATING"
    /\ i' = 0
    /\ pc' = "signals"
    /\ UNCHANGED <<job, engine, fetch, scheduler, market_data, signals, k, error>>

(***************************************************************************)
(* run_backtest: the bar loop.                                             *)
(***************************************************************************)
\* signals = strategy.generate_signals(price_data, i)
GenerateSignals ==
    /\ phase = "SIMULATING"
    /\ pc = "signals"
    /\ i < min_length
    /\ LET sig == generate_signals(strategy, price_data, i)
       IN /\ signals' = sig
          /\ IF \E sym \in DOMAIN sig : sig[sym] = "ValueError"
             THEN /\ phase' = "FAILED"
                  /\ error' = "ValueError"
                  /\ UNCHANGED <<pc, k>>
             ELSE /\ pc' = "exec"
                  /\ k' = 1
                  /\ UNCHANGED <<phase, error>>
    /\ UNCHANGED <<job, engine, fetch, scheduler, locals, state, i, result>>

\* variant: a position is sized from the total equity
PositionValueOfEquity(c) == RMul(equity, Frac(1, 10))

\* position_value = state.cash * 0.1
PositionValue(c) == RMul(c, Frac(1, 10))

\* variant: the slippage is a fixed amount of 1 taken off the close
EntryPriceLessOne(current_price) == RSub(current_price, One)

\* actual_price = current_price * (1 + self.slippage)
EntryPrice(current_price) == RMul(current_price, RAdd(One, cfg.slippage))

\* variant: a buy is charged no commission
BuyCostCommissionFree(quantity, actual_price) == RMul(quantity, actual_price)

\* cost = quantity * actual_price * (1 + self.commission)
BuyCost(quantity, actual_price) ==
    RMul(RMul(quantity, actual_price), RAdd(One, cfg.commission))

\* variant: a buy may cost up to twice the cash
AffordableOnMargin(cost, c) == RLe(cost, RMul(c, R(2)))

\* variant: the cost is never compared with the cash
AffordableUnchecked(cost, c) == TRUE

\* variant: the cost is compared with the position value instead of the cash
AffordableFromPositionValue(cost, c) == RLe(cost, PositionValue(c))

\* if cost <= state.cash
Affordable(cost, c) == RLe(cost, c)

\* variant: a sale is filled at the close, without slippage
ExitPriceAtClose(current_price) == current_price

\* actual_price = current_price * (1 - self.slippage)
ExitPrice(current_price) == RMul(current_price, RSub(One, cfg.slippage))

\* variant: the default commission is charged instead of the engine's
ProceedsDefaultCommission(quantity, actual_price) ==
    RMul(RMul(quantity, actual_price), RSub(One, Frac(1, 1000)))

\* proceeds = position.quantity * actual_price * (1 - self.commission)
Proceeds(quantity, actual_price) ==
    RMul(RMul(quantity, actual_price), RSub(One, cfg.commission))

\* cost_basis = position.quantity * position.entry_price
CostBasis(position) == RMul(position.quantity, position.entry_price)

\* variant: the Trade is dated with the entry of the position
ClosingTradeBackdated(position, current_price) ==
    [symbol |-> position.symbol, side |-> "long",
     entry_price |-> position.entry_price, exit_price |-> current_price,
     quantity |-> position.quantity,
     entry_date |-> position.entry_date, exit_date |-> position.entry_date,
     pnl |-> Zero, pnl_percent |-> Zero]

\* the Trade appended when position is closed at current_price
ClosingTrade(position, current_price) ==
    LET actual_price == ExitPrice(current_price)
        proceeds == Proceeds(position.quantity, actual_price)
        cost_basis == CostBasis(position)
        pnl == RSub(proceeds, cost_basis)
    IN [symbol |-> position.symbol, side |-> "long",
        entry_price |-> position.entry_price, exit_price |-> actual_price,
        quantity |-> position.quantity,
        entry_date |-> position.entry_date, exit_date |-> date,
        pnl |-> pnl,
        pnl_percent |-> IF RGt(cost_basis, Zero) THEN RDiv(pnl, cost_basis) ELSE Zero]

\* variant: only the first symbol's signal is executed
SignalOrderFirstOnly == <<cfg.symbols[1]>>

\* signals.items() iterates in the insertion order of the symbols
SignalOrder == cfg.symbols

\* one iteration of "for symbol, signal in signals.items()"
ExecuteSignal ==
    /\ phase = "SIMULATING"
    /\ pc = "exec"
    /\ k <= Len(SignalOrder)
    /\ LET symbol == SignalOrder[k]
           signal == signals[symbol]
           current_price == R(price_data[symbol][i + 1])
           position_value == PositionValue(cash)
           quantity == RDiv(position_value, current_price)
           actual_price == EntryPrice(current_price)
           cost == BuyCost(quantity, actual_price)
       IN IF signal = "buy" /\ symbol \notin DOMAIN positions
          THEN IF current_price = Zero
               THEN \* position_value / current_price raises ZeroDivisionError
                    /\ phase' = "FAILED"
                    /\ error' = "ZeroDivisionError"
                    /\ UNCHANGED <<state, k>>
               ELSE /\ IF /\ RGt(quantity, Zero)
                          /\ RLe(position_value, cash)
                          /\ Affordable(cost, cash)
                       THEN /\ cash' = RSub(cash, cost)
                            /\ positions' = positions @@ (symbol :>
                                   [symbol |-> symbol, quantity |-> quantity,
                                    entry_price |-> actual_price, entry_date |-> date,
                                    side |-> "long"])
                       ELSE UNCHANGED <<cash, positions>>
                    /\ k' = k + 1
                    /\ UNCHANGED <<date, equity, trades, equity_curve, phase, error>>
          ELSE IF signal = "sell" /\ symbol \in DOMAIN positions
          THEN LET position == positions[symbol]
                   trade == ClosingTrade(position, current_price)
               IN /\ trades' = Append(trades, trade)
                  /\ cash' = RAdd(cash, Proceeds(position.quantity, trade.exit_price))
                  /\ positions' = [sym \in DOMAIN positions \ {symbol} |-> positions[sym]]
                  /\ k' = k + 1
                  /\ UNCHANGED <<date, equity, equity_curve, phase, error>>
          ELSE /\ k' = k + 1
               /\ UNCHANGED <<state, phase, error>>
    /\ UNCHANGED <<job, engine, fetch, scheduler, locals, i, pc, signals, result>>

\* variant: open positions valued at their entry price instead of the bar's close
PositionsValueAtEntry(pos, prices, idx) ==
    RSum([j \in 1..Len(SignalOrder) |->
            IF SignalOrder[j] \in DOMAIN pos
            THEN RMul(pos[SignalOrder[j]].quantity, pos[SignalOrder[j]].entry_price)
            ELSE Zero])

\* positions_value = sum(pos.quantity * price_data[pos.symbol][i] for pos in positions)
PositionsValue(pos, prices, idx) ==
    RSum([j \in 1..Len(SignalOrder) |->
            IF SignalOrder[j] \in DOMAIN pos /\ SignalOrder[j] \in DOMAIN prices
               /\ idx < Len(prices[SignalOrder[j]])
            THEN RMul(pos[SignalOrder[j]].quantity, R(prices[SignalOrder[j]][idx + 1]))
            ELSE Zero])

\* end of the loop body: equity, EquityPoint, date
RecordEquity ==
    /\ phase = "SIMULATING"
    /\ pc = "exec"
    /\ k > Len(SignalOrder)
    /\ LET positions_value == PositionsValue(positions, price_data, i)
           timestamp == market_data[cfg.symbols[1]].timestamps[i + 1]
       IN /\ equity' = RAdd(cash, positions_value)
          /\ equity_curve' = Append(equity_curve,
                 [timestamp |-> timestamp, equity |-> RAdd(cash, positions_value),
                  cash |-> cash, positions_value |-> positions_value])
    /\ date' = date + 1
    /\ i' = i + 1
    /\ pc' = "signals"
    /\ UNCHANGED <<job, engine, fetch, scheduler, locals, phase, cash, positions, trades, signals, k, result, error>>

(***************************************************************************)
(* _calculate_metrics.                                                     *)
(***************************************************************************)
\* float('inf')
Inf == [n |-> 1, d |-> 0]

\* variant: a trade that breaks even counts as a win
WinsOrEven(tr) == SelectSeq(tr, LAMBDA t : RLe(Zero, t.pnl))

Wins(tr) == SelectSeq(tr, LAMBDA t : RGt(t.pnl, Zero))

Losses(tr) == SelectSeq(tr, LAMBDA t : RLt(t.pnl, Zero))

\* sum(t.pnl for t in wins); sum(abs(t.pnl) for t in losses)
PnlSum(tr) == RSum([j \in 1..Len(tr) |-> tr[j].pnl])

AbsPnlSum(tr) == RSum([j \in 1..Len(tr) |-> RNeg(tr[j].pnl)])

\* sum(wins) / sum(losses) if losses and sum(losses) > 0 else float('inf')
ProfitFactor(tr) ==
    IF Losses(tr) # <<>> /\ RGt(AbsPnlSum(Losses(tr)), Zero)
    THEN RDiv(PnlSum(Wins(tr)), AbsPnlSum(Losses(tr)))
    ELSE Inf

\* variant: the infinite profit factor is reported as it is
ReportedProfitFactorUncapped(pf) == IF pf # Inf THEN Round2(pf) ELSE Inf

\* round(profit_factor, 2) if profit_factor != float('inf') else 999.99
ReportedProfitFactor(pf) == IF pf # Inf THEN Round2(pf) ELSE Frac(99999, 100)

\* the per-bar returns the Sharpe ratio is computed from
Returns(curve) ==
    LET idx == SelectSeq([j \in 1..(Len(curve) - 1) |-> j + 1],
                         LAMBDA j : RGt(curve[j - 1].equity, Zero))
    IN [j \in 1..Len(idx) |->
          RDiv(RSub(curve[idx[j]].equity, curve[idx[j] - 1].equity), curve[idx[j] - 1].equity)]

\* sharpe_ratio: 0 on the guarded branches; otherwise the annualised ratio of
\* the returns, which involves square roots and is kept unevaluated
SharpeRatio(curve) ==
    IF Len(curve) > 1
    THEN LET returns == Returns(curve)
         IN IF returns # <<>>
            THEN IF \E j \in 1..Len(returns) : returns[j] # returns[1]
                 THEN [mean_over_std_annualised |-> returns]
                 ELSE Zero
            ELSE Zero
    ELSE Zero

\* variant: the running peak is never raised above its starting value
RECURSIVE DrawdownLoopStalePeak(_, _, _, _)
DrawdownLoopStalePeak(curve, from, peak, max_drawdown) ==
    IF from > Len(curve) THEN max_drawdown
    ELSE LET e == curve[from].equity
             drawdown == IF RGt(peak, Zero) THEN RDiv(RSub(peak, e), peak) ELSE Zero
         IN DrawdownLoopStalePeak(curve, from + 1, peak, RMax(max_drawdown, drawdown))

\* the max-drawdown loop over equity_curve[from..], with the running peak and maximum
RECURSIVE DrawdownLoop(_, _, _, _)
DrawdownLoop(curve, from, peak, max_drawdown) ==
    IF from > Len(curve) THEN max_drawdown
    ELSE LET e == curve[from].equity
             newpeak == IF RGt(e, peak) THEN e ELSE peak
             drawdown == IF RGt(newpeak, Zero) THEN RDiv(RSub(newpeak, e), newpeak) ELSE Zero
         IN DrawdownLoop(curve, from + 1, newpeak, RMax(max_drawdown, drawdown))

MaxDrawdown(curve, initial_capital) == DrawdownLoop(curve, 1, initial_capital, Zero)

\* the BacktestResults built when there is at least one trade
FullMetrics(tr, curve, final_equity) ==
    LET total_trades == Len(tr)
        winning_trades == Len(Wins(tr))
        win_rate == IF total_trades > 0 THEN Frac(winning_trades, total_trades) ELSE Zero
        total_return == RDiv(RSub(final_equity, cfg.initial_capital), cfg.initial_capital)
    IN [total_return |-> Round2(RMul(total_return, R(100))),
        sharpe_ratio |-> SharpeRatio(curve),
        max_drawdown |-> Round2(RMul(MaxDrawdown(curve, cfg.initial_capital), R(100))),
        win_rate |-> Round2(RMul(win_rate, R(100))),
        profit_factor |-> ReportedProfitFactor(ProfitFactor(tr)),
        total_trades |-> total_trades,
        winning_trades |-> winning_trades,
        losing_trades |-> total_trades - winning_trades,
        avg_win |-> IF Wins(tr) # <<>>
                    THEN Round2(RDiv(PnlSum(Wins(tr)), R(Len(Wins(tr))))) ELSE Zero,
        avg_loss |-> IF Losses(tr) # <<>>
                     THEN Round2(RDiv(AbsPnlSum(Losses(tr)), R(Len(Losses(tr))))) ELSE Zero,
        equity_curve |-> [j \in 1..Len(curve) |->
                            [timestamp |-> curve[j].timestamp, equity |-> Round2(curve[j].equity)]],
        trades |-> [j \in 1..Len(tr) |->
                      [symbol |-> tr[j].symbol, side |-> tr[j].side,
                       entry_price |-> Round2(tr[j].entry_price),
                       exit_price |-> Round2(tr[j].exit_price),
                       quantity |-> Round4(tr[j].quantity),
                       pnl |-> Round2(tr[j].pnl),
                       pnl_percent |-> Round2(RMul(tr[j].pnl_percent, R(100)))]]]

\* variant: the "if not trades" early return is missing
calculate_metrics_unguarded(tr, curve, final_equity) == FullMetrics(tr, curve, final_equity)

\* _calculate_metrics(state)
calculate_metrics(tr, curve, final_equity) ==
    IF tr = <<>> THEN EmptyResults ELSE FullMetrics(tr, curve, final_equity)

\* return self._calculate_metrics(state), after the last bar
ComputeMetrics ==
    /\ phase = "SIMULATING"
    /\ pc = "signals"
    /\ i >= min_length
    /\ IF trades # <<>> /\ cfg.initial_capital = Zero
       THEN \* (final_equity - initial_capital) / initial_capital raises
            /\ phase' = "FAILED"
            /\ error' = "ZeroDivisionError"
            /\ UNCHANGED result
       ELSE /\ result' = calculate_metrics(trades, equity_curve, equity)
            /\ phase' = "METRICS_COMPUTED"
            /\ UNCHANGED error
    /\ UNCHANGED <<job, engine, fetch, scheduler, locals, state, loop>>

Next ==
    \/ FetchSymbol
    \/ FetchData
    \/ BeginSimulation
    \/ GenerateSignals
    \/ ExecuteSignal
    \/ RecordEquity
    \/ ComputeMetrics

Spec == Init /\ [][Next]_vars

(***************************************************************************)
(* Several run_backtest coroutines on one event loop.  A coroutine keeps   *)
(* the loop until it awaits (inside fetch_historical_data) or returns.     *)
(***************************************************************************)
\* tasks.saved holds the frames of the coroutines that are not running,
\* tasks.after the calls each coroutine was started after, and
\* tasks.overlapped tells whether a coroutine that had begun fetching has given
\* up the loop at an await
\* the frame of a call of run_backtest that has not started yet
InitialFrame(c, p, n) ==
    [cfg |-> c, provider |-> p, network |-> n, phase |-> "INITIALIZED",
     market_data |-> <<>>, strategy |-> NoStrategy, date |-> 0, cash |-> Zero,
     positions |-> <<>>, equity |-> Zero, trades |-> <<>>, equity_curve |-> <<>>,
     i |-> 0, pc |-> "signals", signals |-> <<>>, k |-> 1, result |-> NoResult,
     error |-> "none", data |-> <<>>, fetched |-> 0]

\* the frame of the running coroutine: its engine, arguments, locals and state
Frame ==
    [cfg |-> cfg, provider |-> provider, network |-> network, phase |-> phase,
     market_data |-> market_data, strategy |-> strategy, date |-> date, cash |-> cash,
     positions |-> positions, equity |-> equity, trades |-> trades,
     equity_curve |-> equity_curve, i |-> i, pc |-> pc, signals |-> signals, k |-> k,
     result |-> result, error |-> error, data |-> data, fetched |-> fetched]

\* the frame of coroutine t, running or not
FrameOf(t) == IF t = current THEN Frame ELSE tasks.saved[t]

Returned(ph) == ph \in {"METRICS_COMPUTED", "FAILED"}

\* variant: every call stores its initial_capital in the module-level
\* backtest_engine when it starts and reads it from there when it resumes
SharedEngineConfig(frame) ==
    IF frame.fetched = 0 THEN frame.cfg
    ELSE [frame.cfg EXCEPT !.initial_capital = cfg.initial_capital]

\* engine = BacktestEngine(initial_capital=initial_capital): the engine a call
\* reads its capital, commission and slippage from is its own
OwnedConfig(frame) == frame.cfg

\* the event loop passes control to coroutine t: the running coroutine awaits
\* or has returned, t has not returned, and the calls t was started after have
Switch(t) ==
    /\ t \in DOMAIN tasks.saved
    /\ phase = "INITIALIZED" \/ Returned(phase)
    /\ ~Returned(tasks.saved[t].phase)
    /\ \A u \in tasks.after[t] : Returned(FrameOf(u).phase)
    /\ tasks' = [tasks EXCEPT
                    !.saved = [u \in (DOMAIN tasks.saved \ {t}) \cup {current} |->
                                 IF u = current THEN Frame ELSE tasks.saved[u]],
                    !.overlapped = @ \/ (~Returned(phase) /\ fetched > 0)]
    /\ current' = t
    /\ LET frame == tasks.saved[t]
       IN /\ cfg' = OwnedConfig(frame)
          /\ provider' = frame.provider
          /\ network' = frame.network
          /\ phase' = frame.phase
          /\ market_data' = frame.market_data
          /\ strategy' = frame.strategy
          /\ date' = frame.date
          /\ cash' = frame.cash
          /\ positions' = frame.positions
          /\ equity' = frame.equity
          /\ trades' = frame.trades
          /\ equity_curve' = frame.equity_curve
          /\ i' = frame.i
          /\ pc' = frame.pc
          /\ signals' = frame.signals
          /\ k' = frame.k
          /\ result' = frame.result
          /\ error' = frame.error
          /\ data' = frame.data
          /\ fetched' = frame.fetched
    /\ UNCHANGED job

NextTasks ==
    \/ Next
    \/ \E t \in DOMAIN tasks.saved : Switch(t)

\* feeds of fewer than MaxBars bars
TaskFeeds(symbols) ==
    {p \in ProviderFeeds(symbols) : \A sym \in DOMAIN p : Len(p[sym].close) < MaxBars}

\* requests charged no prohibitive commission
TaskConfigs == {c \in Configs : RLt(c.commission, One)}

\* the same request made twice, the second call after the first has returned
InitRestart ==
    /\ cfg \in TaskConfigs
    /\ provider \in TaskFeeds(cfg.symbols)
    /\ network = Reachable(cfg.symbols)
    /\ InitRun
    /\ current = 1
    /\ tasks = [saved |-> (2 :> InitialFrame(cfg, provider, network)),
                after |-> (1 :> {} @@ 2 :> {1}), overlapped |-> FALSE]

SpecRestart == InitRestart /\ [][NextTasks]_vars

\* requests for the same symbols that differ in the initial capital
ConcurrentConfigs(symbols) ==
    {[symbols |-> symbols, strategy_type |-> "mean_reversion", parameters |-> [period |-> 1],
      initial_capital |-> R(c), slippage |-> Zero, commission |-> Zero] : c \in {100, 200}}

\* feeds of MaxBars - 1 bars for one symbol, of MaxBars - 2 bars for two, the
\* second symbol's closes constant
ConcurrentFeeds(symbols) ==
    {p \in TaskFeeds(symbols) :
        IF Len(symbols) = 1
        THEN Len(p[symbols[1]].close) = MaxBars - 1
        ELSE /\ Len(p[symbols[1]].close) = MaxBars - 2
             /\ \A j \in 1..Len(p[symbols[2]].close) : p[symbols[2]].close[j] = 1}

\* two calls gathered on the event loop, and a third call, repeating the
\* first, that is made once both have returned and so runs alone
InitConcurrent ==
    /\ \E sy \in SymbolLists : cfg \in ConcurrentConfigs(sy)
    /\ provider \in ConcurrentFeeds(cfg.symbols)
    /\ network = Reachable(cfg.symbols)
    /\ InitRun
    /\ current = 1
    /\ \E other \in ConcurrentConfigs(cfg.symbols) :
          tasks = [saved |-> (2 :> InitialFrame(other, provider, network)
                              @@ 3 :> InitialFrame(cfg, provider, network)),
                   after |-> (1 :> {} @@ 2 :> {} @@ 3 :> {1, 2}), overlapped |-> FALSE]

SpecConcurrent == InitConcurrent /\ [][NextTasks]_vars

(***************************************************************************)
(* Data acquisition: requests of every kind against a data API that may be *)
(* unconfigured, fail, or answer with no bars.                             *)
(***************************************************************************)
\* "unrecognized" stands for an identifier outside the StrategyType enum
StrategyIdentifiers == StrategyTypes \cup {"unrecognized"}

\* the empty symbol list, one symbol and two; every strategy identifier with
\* no parameters; a positive and a negative initial capital
AcquireConfigs ==
    {[symbols |-> sy, strategy_type |-> t, parameters |-> <<>>,
      initial_capital |-> R(c), slippage |-> Zero, commission |-> Zero] :
        sy \in SymbolLists \cup {<<>>}, t \in StrategyIdentifiers, c \in {100, -100}}

\* the API is not configured, or it answers each symbol with status 200, with
\* another status, or the request raises
Networks(symbols) ==
    LET syms == {symbols[j] : j \in 1..Len(symbols)}
    IN {[configured |-> FALSE, outcome |-> [sym \in syms |-> "none"]]}
       \cup {[configured |-> TRUE, outcome |-> o] : o \in [syms -> {"200", "503", "raises"}]}

\* what a status-200 answer holds for each symbol: series of up to MaxBars - 3
\* bars, of any lengths, none included (nothing where there is no such answer)
AcquireFeeds(symbols, n) ==
    LET syms == {symbols[j] : j \in 1..Len(symbols)}
    IN {[sym \in syms |-> Bars(f[sym])] :
           f \in {g \in [syms -> SeriesUpTo(MaxBars - 3, 1..MaxPrice)] :
                     \A sym \in syms :
                        (~n.configured \/ n.outcome[sym] # "200") => g[sym] = <<>>}}

InitAcquire ==
    /\ cfg \in AcquireConfigs
    /\ network \in Networks(cfg.symbols)
    /\ provider \in AcquireFeeds(cfg.symbols, network)
    /\ InitRun
    /\ InitAlone

SpecAcquire == InitAcquire /\ [][Next]_vars

(***************************************************************************)
(* Two symbols whose series differ in length.                              *)
(***************************************************************************)
UnevenConfig ==
    [symbols |-> <<"AAA", "BBB">>, strategy_type |-> "mean_reversion",
     parameters |-> [period |-> 1], initial_capital |-> R(100),
     slippage |-> Zero, commission |-> Zero]

\* every pair of series of 1..MaxBars - 1 bars, of equal or different lengths
UnevenFeeds ==
    {[sym \in {"AAA", "BBB"} |-> Bars(IF sym = "AAA" THEN q[1] ELSE q[2])] :
        q \in (SeriesUpTo(MaxBars - 1, 1..MaxPrice) \ {<<>>})
               \X (SeriesUpTo(MaxBars - 1, 1..MaxPrice) \ {<<>>})}

InitUneven ==
    /\ cfg = UnevenConfig
    /\ provider \in UnevenFeeds
    /\ network = Reachable(cfg.symbols)
    /\ InitRun
    /\ InitAlone

SpecUneven == InitUneven /\ [][Next]_vars

(***************************************************************************)
(* Unvalidated inputs: the engine checks neither the capital, the rates    *)
(* nor the sign of the closes, so runs are drawn with all of them.         *)
(***************************************************************************)
\* (slippage, commission): none, fractions, and a commission of nine times
\* the traded value, with which a buy costs exactly the cash
WideRatePairs == {<<Zero, Zero>>, <<Frac(1, RateDen), Frac(1, RateDen)>>, <<Zero, R(9)>>}

\* one symbol, the two strategies with a one-bar window, a positive, a zero
\* and a negative initial capital
WideConfigs ==
    {[symbols |-> <<"AAA">>, strategy_type |-> sr.strategy_type, parameters |-> sr.parameters,
      initial_capital |-> R(c), slippage |-> rp[1], commission |-> rp[2]] :
        sr \in {[strategy_type |-> "mean_reversion", parameters |-> [period |-> 1]],
                 [strategy_type |-> "trend_following", parameters |-> [lookback |-> 1]]},
        c \in {100, 0, -100}, rp \in WideRatePairs}

\* series of up to MaxBars - 1 closes, negative and zero closes included
WideFeeds ==
    {[sym \in {"AAA"} |-> Bars(s)] : s \in SeriesUpTo(MaxBars - 1, (-1)..MaxPrice) \ {<<>>}}

InitWide ==
    /\ cfg \in WideConfigs
    /\ provider \in WideFeeds
    /\ network = Reachable(cfg.symbols)
    /\ InitRun
    /\ InitAlone

SpecWide == InitWide /\ [][Next]_vars

(***************************************************************************)
(* Series long enough for a symbol to be bought and sold twice.            *)
(***************************************************************************)
\* one symbol, the two strategies with a one-bar window, without and with
\* slippage and commission
RoundTripConfigs ==
    {[symbols |-> <<"AAA">>, strategy_type |-> sr.strategy_type, parameters |-> sr.parameters,
      initial_capital |-> R(100), slippage |-> r, commission |-> r] :
        sr \in {[strategy_type |-> "mean_reversion", parameters |-> [period |-> 1]],
                 [strategy_type |-> "trend_following", parameters |-> [lookback |-> 1]]},
        r \in {Zero, Frac(1, RateDen)}}

\* series of up to MaxBars + 1 positive closes
RoundTripFeeds ==
    {[sym \in {"AAA"} |-> Bars(s)] : s \in SeriesUpTo(MaxBars + 1, 1..MaxPrice) \ {<<>>}}

InitRoundTrip ==
    /\ cfg \in RoundTripConfigs
    /\ provider \in RoundTripFeeds
    /\ network = Reachable(cfg.symbols)
    /\ InitRun
    /\ InitAlone

SpecRoundTrip == InitRoundTrip /\ [][Next]_vars

(***************************************************************************)
(* The API: create_backtest stores a Backtest row and schedules            *)
(* run_backtest_task, which calls run_backtest and writes the outcome to    *)
(* the row.  job.status is the row's status ("absent": there is no row),    *)
(* job.results what its results column holds, job.task where the            *)
(* background task stands.                                                  *)
(***************************************************************************)
\* everything but the row and its task
call == <<engine, fetch, scheduler, locals, state, loop, phase, result, error>>

\* POST /: refused with 403 by the plan's limits, or the row is committed
\* with status=BacktestStatus.RUNNING and the task is scheduled
create_backtest ==
    /\ job.task = "none"
    /\ \E permitted \in BOOLEAN :
          job' = IF permitted
                 THEN [status |-> "running", results |-> "{}", task |-> "scheduled"]
                 ELSE [job EXCEPT !.task = "refused"]
    /\ UNCHANGED call

\* DELETE /{backtest_id}: the row is deleted whatever its status
delete_backtest ==
    /\ job.status # "absent"
    /\ job' = [job EXCEPT !.status = "absent"]
    /\ UNCHANGED call

\* run_backtest_task up to the call of run_backtest: the row is selected,
\* and the task returns at once when there is none
SelectBacktest ==
    /\ job.task = "scheduled"
    /\ job' = [job EXCEPT !.task = IF job.status = "absent" THEN "returned" ELSE "running"]
    /\ UNCHANGED call

\* run_backtest_task after run_backtest has returned or raised: COMPLETED
\* with the metrics, or FAILED with the error, then the commit (which finds
\* no row to update when it has been deleted meanwhile)
StoreOutcome ==
    /\ job.task = "running"
    /\ Returned(phase)
    /\ job' = IF job.status = "absent" THEN [job EXCEPT !.task = "returned"]
              ELSE IF phase = "METRICS_COMPUTED"
                   THEN [status |-> "completed", results |-> "metrics", task |-> "returned"]
                   ELSE [status |-> "failed", results |-> "error", task |-> "returned"]
    /\ UNCHANGED call

\* the engine runs inside the task
NextJob ==
    \/ create_backtest
    \/ delete_backtest
    \/ SelectBacktest
    \/ (job.task = "running" /\ FetchSymbol)
    \/ (job.task = "running" /\ FetchData)
    \/ (job.task = "running" /\ BeginSimulation)
    \/ (job.task = "running" /\ GenerateSignals)
    \/ (job.task = "running" /\ ExecuteSignal)
    \/ (job.task = "running" /\ RecordEquity)
    \/ (job.task = "running" /\ ComputeMetrics)
    \/ StoreOutcome

\* requests through the API: one symbol, mean reversion over one bar
JobConfig ==
    [symbols |-> <<"AAA">>, strategy_type |-> "mean_reversion",
     parameters |-> [period |-> 1], initial_capital |-> R(100),
     slippage |-> Zero, commission |-> Zero]

\* series of up to MaxBars - 1 closes, a zero close (at which a buy raises)
\* included
JobFeeds ==
    {[sym \in {"AAA"} |-> Bars(s)] : s \in SeriesUpTo(MaxBars - 1, 0..MaxPrice) \ {<<>>}}

InitJob ==
    /\ cfg = JobConfig
    /\ provider \in JobFeeds
    /\ network = Reachable(cfg.symbols)
    /\ InitRun
    /\ InitAlone

SpecJob == InitJob /\ [][NextJob]_vars

\* the rising-series scenario: one run on RisingFeed
InitRising ==
    /\ cfg = RisingConfig
    /\ provider = RisingFeed
    /\ network = Reachable(cfg.symbols)
    /\ InitRun
    /\ InitAlone

SpecRising == InitRising /\ [][Next]_vars

(***************************************************************************)
(* _calculate_metrics on its own: the state at the end of the bar loop is  *)
(* drawn from bounded sets and the metrics step is applied to it.          *)
(***************************************************************************)
EquityLevels == {90, 100, 110, 120}

PnlLevels == {-10, 0, 10}

MetricsConfig ==
    [symbols |-> <<"AAA">>, strategy_type |-> "momentum", parameters |-> <<>>,
     initial_capital |-> R(100), slippage |-> Zero, commission |-> Zero]

\* equity curves of a run started with 100: the first bar never trades, so
\* the first point is the initial capital
EquityCurves ==
    {[j \in 1..Len(s) + 1 |->
        LET e == IF j = 1 THEN 100 ELSE s[j - 1]
        IN [timestamp |-> j - 1, equity |-> R(e), cash |-> R(e), positions_value |-> Zero]] :
     s \in SeriesUpTo(MaxCurve - 1, EquityLevels)}

\* a closed long Trade of 10 units entered at 10 with the given pnl
TradeWithPnl(pnl) ==
    [symbol |-> "AAA", side |-> "long", entry_price |-> R(10),
     exit_price |-> Frac(100 + pnl, 10), quantity |-> R(10),
     entry_date |-> 0, exit_date |-> 1, pnl |-> R(pnl), pnl_percent |-> Frac(pnl, 100)]

\* the non-empty trade lists: the equity of these curves moves with no
\* position open, which only completed trades can bring about
TradeLists ==
    {[j \in 1..Len(s) |-> TradeWithPnl(s[j])] : s \in SeriesUpTo(MaxTrades, PnlLevels) \ {<<>>}}

InitMetrics ==
    /\ cfg = MetricsConfig
    /\ equity_curve \in EquityCurves
    /\ trades \in TradeLists
    /\ provider = [sym \in {"AAA"} |-> Bars([j \in 1..Len(equity_curve) |-> 1])]
    /\ network = Reachable(cfg.symbols)
    /\ data = provider
    /\ fetched = 1
    /\ market_data = provider
    /\ strategy = get_strategy(cfg.strategy_type, cfg.parameters)
    /\ phase = "SIMULATING"
    /\ date = Len(equity_curve)
    /\ cash = equity_curve[Len(equity_curve)].cash
    /\ equity = equity_curve[Len(equity_curve)].equity
    /\ positions = <<>>
    /\ i = Len(equity_curve)
    /\ pc = "signals"
    /\ signals = [sym \in {"AAA"} |-> "hold"]
    /\ k = 2
    /\ result = NoResult
    /\ error = "none"
    /\ job = NoJob
    /\ InitAlone

\* full runs together with the metrics step applied to the drawn end states
SpecMetrics == (Init \/ InitMetrics) /\ [][Next]_vars

(***************************************************************************)
(* Properties.                                                             *)
(***************************************************************************)
\* the buy the current loop iteration is about to evaluate costs more than the cash
UnaffordableBuyPending ==
    /\ phase = "SIMULATING" /\ pc = "exec" /\ k <= Len(SignalOrder)
    /\ signals[SignalOrder[k]] = "buy"
    /\ SignalOrder[k] \notin DOMAIN positions
    /\ price_data[SignalOrder[k]][i + 1] > 0
    /\ RGt(BuyCost(RDiv(PositionValue(cash), R(price_data[SignalOrder[k]][i + 1])),
                   EntryPrice(R(price_data[SignalOrder[k]][i + 1]))), cash)

RECURSIVE SumOver(_, _)
SumOver(S, f) ==
    IF S = {} THEN Zero
    ELSE LET x == CHOOSE y \in S : TRUE IN RAdd(f[x], SumOver(S \ {x}, f))

\* C2: every EquityPoint has equity = cash + positions_value, and the point
\* appended for a bar holds the cash at the end of that bar and the sum over the
\* positions open at the end of that bar of quantity times the symbol's close
\* on that bar
C2_EquityIdentity ==
    /\ \A j \in 1..Len(equity_curve) :
          equity_curve[j].equity = RAdd(equity_curve[j].cash, equity_curve[j].positions_value)
    /\ (phase = "SIMULATING" /\ pc = "signals" /\ i >= 1) =>
          /\ equity_curve[i].cash = cash
          /\ equity_curve[i].positions_value =
                SumOver(DOMAIN positions,
                        [sym \in DOMAIN positions |->
                            RMul(positions[sym].quantity, R(market_data[sym].close[i]))])
          /\ equity = equity_curve[i].equity

\* C2 witness: a bar was recorded with two open positions whose value at the
\* close differs from their value at entry
C2_Witness ==
    /\ phase = "SIMULATING" /\ pc = "signals" /\ i >= 1
    /\ Cardinality(DOMAIN positions) = 2
    /\ equity_curve[i].positions_value #
          SumOver(DOMAIN positions,
                  [sym \in DOMAIN positions |->
                      RMul(positions[sym].quantity, positions[sym].entry_price)])

\* C3: a run whose metrics stage is reached with no completed trade returns
\* the all-zero result with no trades, and that stage does not fail
C3_ZeroTradesEmptyResult ==
    (trades = <<>> /\ i >= min_length /\ phase \in {"METRICS_COMPUTED", "FAILED"}) =>
        /\ phase = "METRICS_COMPUTED"
        /\ error = "none"
        /\ result.total_return = Zero
        /\ result.sharpe_ratio = Zero
        /\ result.max_drawdown = Zero
        /\ result.win_rate = Zero
        /\ result.profit_factor = Zero
        /\ result.total_trades = 0
        /\ result.trades = <<>>

\* C3 witness: the result of a run that simulated bars, completed no trade and
\* still holds a position, its final equity differing from the initial capital
C3_Witness ==
    /\ phase = "METRICS_COMPUTED"
    /\ trades = <<>>
    /\ positions # <<>>
    /\ Len(equity_curve) >= 2
    /\ equity # cfg.initial_capital

\* C4 as stated: the rising-series run returns at least one trade and a
\* positive total return
C4_RisingHasTrades ==
    phase = "METRICS_COMPUTED" => (result.total_trades >= 1 /\ RGt(result.total_return, Zero))

\* C4 amended: on the rising series the symbol stays flat through bar 29, the
\* buy opens on bar 30 (short MA more than 2% above long MA) at 130 * 1.0005
\* for a tenth of the capital, the position is never closed, and the returned
\* result has total_trades = 0 and total_return = 0
C4_RisingOpensButNeverCloses ==
    /\ (phase = "SIMULATING" /\ i <= 29) => positions = <<>>
    /\ (phase = "SIMULATING" /\ i >= 31) =>
          /\ DOMAIN positions = {"AAA"}
          /\ positions["AAA"].entry_date = 30
          /\ positions["AAA"].entry_price = Frac(130065, 1000)
          /\ positions["AAA"].quantity = Frac(10000, 130)
    /\ phase = "METRICS_COMPUTED" =>
          /\ DOMAIN positions = {"AAA"}
          /\ trades = <<>>
          /\ result.total_trades = 0
          /\ result.total_return = Zero
    /\ phase # "FAILED"

\* C4 witness: the run is finished, 40 bars were recorded, the position opened
\* on bar 30 is still open and the equity has grown
C4_Witness ==
    /\ cfg = RisingConfig
    /\ phase = "METRICS_COMPUTED"
    /\ Len(equity_curve) = 40
    /\ "AAA" \in DOMAIN positions
    /\ RGt(equity, cfg.initial_capital)

\* C5 as stated: once the simulation has started the run never ends in an
\* exception
C5_LoopNeverRaises == phase = "FAILED" => DOMAIN market_data = {}

\* C6: with zero commission and slippage, a position closed on the bar after
\* its entry at the same close yields a Trade with pnl = 0 and pnl_percent = 0,
\* and (single-symbol run) the cash recorded for the exit bar equals the cash
\* recorded before the entry bar
C6_RoundTripIsNeutral ==
    (cfg.commission = Zero /\ cfg.slippage = Zero) =>
        \A j \in 1..Len(trades) :
            LET t == trades[j]
                closes == market_data[t.symbol].close
            IN (t.exit_date = t.entry_date + 1 /\ closes[t.entry_date + 1] = closes[t.exit_date + 1]) =>
                  /\ t.pnl = Zero
                  /\ t.pnl_percent = Zero
                  /\ (Len(cfg.symbols) = 1 /\ Len(equity_curve) > t.exit_date) =>
                        equity_curve[t.exit_date + 1].cash = equity_curve[t.entry_date].cash

\* C6 witness: such a round trip at an unchanged close was recorded, together
\* with the bar of its exit
C6_Witness ==
    /\ cfg.commission = Zero /\ cfg.slippage = Zero
    /\ Len(cfg.symbols) = 1
    /\ \E j \in 1..Len(trades) :
          /\ trades[j].exit_date = trades[j].entry_date + 1
          /\ market_data[trades[j].symbol].close[trades[j].entry_date + 1]
                = market_data[trades[j].symbol].close[trades[j].exit_date + 1]
          /\ RGt(trades[j].quantity, Zero)
          /\ Len(equity_curve) > trades[j].exit_date

\* the largest relative decline from a point of the curve to a later point
PeakToTrough(curve) ==
    LET later == {Zero} \cup
                 {RDiv(RSub(curve[p[1]].equity, curve[p[2]].equity), curve[p[1]].equity) :
                     p \in {q \in (1..Len(curve)) \X (1..Len(curve)) : q[1] <= q[2]}}
    IN CHOOSE m \in later : \A x \in later : RLe(x, m)

Equities(curve) == [j \in 1..Len(curve) |-> curve[j].equity]

\* C7 as stated: the reported max_drawdown is always the largest peak-to-trough
\* relative decline of the equity curve times 100
C7_DrawdownOfEveryCurve ==
    phase = "METRICS_COMPUTED" =>
        result.max_drawdown = Round2(RMul(PeakToTrough(equity_curve), R(100)))

\* C7 amended: when at least one trade was completed, the reported
\* max_drawdown is the largest peak-to-trough relative decline of the equity
\* curve times 100 (with no completed trade it is 0); the curve
\* [100, 120, 90, 110] with initial capital 100 and a completed trade reports 25
C7_DrawdownWhenTrades ==
    phase = "METRICS_COMPUTED" =>
        /\ trades # <<>> =>
              result.max_drawdown = Round2(RMul(PeakToTrough(equity_curve), R(100)))
        /\ trades = <<>> => result.max_drawdown = Zero
        /\ (trades # <<>> /\ Equities(equity_curve) = <<R(100), R(120), R(90), R(110)>>) =>
              result.max_drawdown = R(25)

\* C7 witness: the metrics of the curve [100, 120, 90, 110] with a completed trade
C7_Witness ==
    /\ phase = "METRICS_COMPUTED"
    /\ trades # <<>>
    /\ cfg.initial_capital = R(100)
    /\ Equities(equity_curve) = <<R(100), R(120), R(90), R(110)>>

\* C8: with at least one trade and no losing trade the reported profit factor
\* is the finite sentinel 999.99
C8_ProfitFactorSentinel ==
    (phase = "METRICS_COMPUTED" /\ trades # <<>>
        /\ \A j \in 1..Len(trades) : ~RLt(trades[j].pnl, Zero)) =>
        /\ result.profit_factor = Frac(99999, 100)
        /\ result.profit_factor.d # 0

\* C8 witness: a finished run all of whose trades (at least one) made money
C8_Witness ==
    /\ phase = "METRICS_COMPUTED"
    /\ trades # <<>>
    /\ \A j \in 1..Len(trades) : RGt(trades[j].pnl, Zero)

\* C9 as stated: with at least one trade and no trade with pnl > 0 the
\* reported profit factor is 0
C9_NoWinsProfitFactorZero ==
    (phase = "METRICS_COMPUTED" /\ trades # <<>>
        /\ \A j \in 1..Len(trades) : ~RGt(trades[j].pnl, Zero)) =>
        result.profit_factor = Zero

\* the history a strategy needs before it signals
RequiredWindow(strat) ==
    CASE strat.class = "MomentumStrategy" -> Param(strat.params, "long_period", 30)
      [] strat.class = "MeanReversionStrategy" -> Param(strat.params, "period", 20)
      [] strat.class = "TrendFollowingStrategy" -> Param(strat.params, "lookback", 20)

\* C10: the signals generated for a bar index below the strategy's required
\* window are 'hold' for every symbol, and generating them does not raise
C10_HoldBeforeWindow ==
    (phase \in {"SIMULATING", "FAILED"} /\ (pc = "exec" \/ error = "ValueError")
        /\ i < RequiredWindow(strategy)) =>
        /\ error # "ValueError"
        /\ \A sym \in DOMAIN price_data : signals[sym] = "hold"

\* C10 witness: signals were generated for bar 1 by a strategy whose window is
\* longer, on closes that differ between bar 0 and bar 1
C10_Witness ==
    /\ phase = "SIMULATING" /\ pc = "exec"
    /\ i >= 1 /\ i < RequiredWindow(strategy)
    /\ \E sym \in DOMAIN price_data : price_data[sym][1] # price_data[sym][2]
    /\ \A sym \in DOMAIN price_data : signals[sym] = "hold"

\* the symbols of the request
Requested == {cfg.symbols[j] : j \in 1..Len(cfg.symbols)}

\* C11: a run whose symbol list is empty, or one of whose series has no bar,
\* returns the empty result from set-up, without error: no signals were
\* generated, no bar was processed and no EquityPoint was recorded
C11_NoBarsEmptyResult ==
    (/\ phase \notin {"INITIALIZED", "DATA_READY"}
     /\ \/ cfg.symbols = <<>>
        \/ \E sym \in DOMAIN market_data : Len(market_data[sym].close) = 0)
    => /\ phase = "METRICS_COMPUTED"
       /\ error = "none"
       /\ result = EmptyResults
       /\ signals = <<>>
       /\ i = 0
       /\ equity_curve = <<>>
       /\ trades = <<>>

\* C11 witness: a two-symbol run returned while the first symbol had bars and
\* the second had none
C11_Witness ==
    /\ phase = "METRICS_COMPUTED"
    /\ Len(cfg.symbols) = 2
    /\ Len(market_data[cfg.symbols[1]].close) > 0
    /\ Len(market_data[cfg.symbols[2]].close) = 0
    /\ result = EmptyResults

\* C12: a run requested with a negative initial_capital does not get past
\* data acquisition: it never simulates, never returns a result and never
\* records an EquityPoint
C12_NegativeCapitalRejected ==
    RLt(cfg.initial_capital, Zero) =>
        /\ phase \notin {"SIMULATING", "METRICS_COMPUTED"}
        /\ equity_curve = <<>>
        /\ result = NoResult

\* the fetch for sym got a status-200 answer
Answered(sym) == network.configured /\ network.outcome[sym] = "200"

\* C13: data acquisition never raises, and once it has returned the mapping
\* holds exactly one series per requested symbol: the provider's answer for
\* every symbol whose fetch succeeded, whatever happened to the other symbols,
\* and a synthetic series for every symbol whose fetch raised or was answered
\* with another status
C13_FetchFailureIsolated ==
    /\ phase \in {"INITIALIZED", "DATA_READY"} => error = "none"
    /\ phase # "INITIALIZED" =>
          /\ DOMAIN market_data = Requested
          /\ \A sym \in Requested :
                IF Answered(sym)
                THEN market_data[sym] = provider[sym]
                ELSE market_data[sym] \in {Bars(s) : s \in SyntheticCloses}

\* C13 witness: of two symbols the first fetch raised and the second was
\* answered; the run went on with a synthetic series for the first and the
\* provider's bars for the second
C13_Witness ==
    /\ phase = "SIMULATING"
    /\ Len(cfg.symbols) = 2
    /\ network.configured
    /\ network.outcome[cfg.symbols[1]] = "raises"
    /\ network.outcome[cfg.symbols[2]] = "200"
    /\ market_data[cfg.symbols[2]] = provider[cfg.symbols[2]]
    /\ market_data[cfg.symbols[1]].close # market_data[cfg.symbols[2]].close

\* C14: once data acquisition has returned, a symbol the provider answered
\* with status 200 and no bars has bars to simulate
C14_NoDataSubstituted ==
    phase # "INITIALIZED" =>
        \A sym \in Requested :
            (Answered(sym) /\ provider[sym].close = <<>>) => Len(market_data[sym].close) > 0

ForwardSteps ==
    {<<"INITIALIZED", "DATA_READY">>, <<"DATA_READY", "SIMULATING">>,
     <<"SIMULATING", "METRICS_COMPUTED">>, <<"DATA_READY", "METRICS_COMPUTED">>,
     <<"SIMULATING", "FAILED">>}

\* C17: the phase only moves forward, INITIALIZED, DATA_READY, SIMULATING,
\* METRICS_COMPUTED, skipping SIMULATING only when there is no bar; the bar
\* index only moves from i to i+1, once every symbol's signal of bar i has been
\* executed, together with the EquityPoint of bar i; signals are executed on
\* the bar they were generated for; and a run that returns after the loop has
\* one EquityPoint per bar 0..length-1, in increasing order
C17_LinearPass ==
    [][/\ phase' # phase =>
             /\ <<phase, phase'>> \in ForwardSteps
             /\ (phase = "DATA_READY" /\ phase' = "METRICS_COMPUTED") =>
                    (min_length = 0 /\ result' = EmptyResults)
       /\ i' # i =>
             /\ i' = i + 1
             /\ phase = "SIMULATING" /\ phase' = "SIMULATING"
             /\ signals # <<>> /\ k > Len(cfg.symbols)
             /\ Len(equity_curve') = i + 1
             /\ equity_curve'[i + 1].timestamp = market_data[cfg.symbols[1]].timestamps[i + 1]
       /\ (trades' # trades \/ positions' # positions \/ cash' # cash) =>
             (phase = "DATA_READY" \/ (i' = i /\ Len(equity_curve) = i /\ k' = k + 1))
       /\ equity_curve' # equity_curve => (phase = "DATA_READY" \/ i' = i + 1)
       /\ (phase = "SIMULATING" /\ phase' = "METRICS_COMPUTED") =>
             /\ i = min_length
             /\ Len(equity_curve) = min_length
             /\ \A j \in 1..min_length : equity_curve[j].timestamp = j - 1]_vars

\* C17 witness: a run of at least three bars has returned after the loop with
\* a completed trade and one EquityPoint per bar
C17_Witness ==
    /\ phase = "METRICS_COMPUTED"
    /\ i = min_length
    /\ i >= 3
    /\ Len(equity_curve) = i
    /\ trades # <<>>
    /\ Len(cfg.symbols) = 1

\* the implementation the factory is to return for an identifier
ExpectedClass(strategy_type) ==
    IF strategy_type = "mean_reversion" THEN "MeanReversionStrategy"
    ELSE IF strategy_type = "trend_following" THEN "TrendFollowingStrategy"
    ELSE "MomentumStrategy"

\* C18: the strategy a run has built is MeanReversion for mean_reversion,
\* TrendFollowing for trend_following and Momentum for momentum, arbitrage,
\* ml_based, other and an identifier outside the enum, with the request's
\* parameters, and building it raised nothing
C18_FactoryDefaultsToMomentum ==
    /\ \A t \in StrategyIdentifiers : get_strategy(t, <<>>).class = ExpectedClass(t)
    /\ phase \notin {"INITIALIZED", "DATA_READY"} =>
          /\ strategy = [class |-> ExpectedClass(cfg.strategy_type), params |-> cfg.parameters]
          /\ error = "none"

\* C18 witness: a run requested with an identifier that has no implementation
\* generated the signals of a bar with the Momentum strategy
C18_Witness ==
    /\ phase = "SIMULATING"
    /\ cfg.strategy_type \in {"arbitrage", "ml_based", "other", "unrecognized"}
    /\ strategy.class = "MomentumStrategy"
    /\ signals # <<>>
    /\ \A sym \in DOMAIN signals : signals[sym] = "hold"

\* the loop is about to execute a sell signal on a symbol with an open position
SellPending ==
    /\ phase = "SIMULATING" /\ pc = "exec" /\ k <= Len(cfg.symbols)
    /\ signals[cfg.symbols[k]] = "sell"
    /\ cfg.symbols[k] \in DOMAIN positions

\* C19: executing a sell signal on a symbol with an open position removes that
\* position and no other, adds quantity * close * (1 - slippage) * (1 - commission)
\* to the cash, and appends one Trade with pnl = proceeds - quantity * entry_price
\* and pnl_percent = pnl / (quantity * entry_price); no other step changes the
\* trade list, so there are as many Trades as executed sells
C19_SellClosesPosition ==
    [][IF SellPending
       THEN LET symbol == cfg.symbols[k]
                quantity == positions[symbol].quantity
                close == R(market_data[symbol].close[i + 1])
                proceeds == RMul(RMul(RMul(quantity, close), RSub(One, cfg.slippage)),
                                 RSub(One, cfg.commission))
                cost_basis == RMul(quantity, positions[symbol].entry_price)
                trade == trades'[Len(trades')]
            IN /\ DOMAIN positions' = DOMAIN positions \ {symbol}
               /\ \A sym \in DOMAIN positions' : positions'[sym] = positions[sym]
               /\ cash' = RAdd(cash, proceeds)
               /\ Len(trades') = Len(trades) + 1
               /\ SubSeq(trades', 1, Len(trades)) = trades
               /\ trade.symbol = symbol
               /\ trade.quantity = quantity
               /\ trade.pnl = RSub(proceeds, cost_basis)
               /\ trade.pnl_percent = RDiv(RSub(proceeds, cost_basis), cost_basis)
       ELSE trades' = trades]_vars

\* C19 witness: with slippage and commission charged, the sell signal of this
\* bar has just closed the only position and its Trade is the last of the list
C19_Witness ==
    /\ phase = "SIMULATING" /\ pc = "exec" /\ k = 2
    /\ signals[cfg.symbols[1]] = "sell"
    /\ positions = <<>>
    /\ trades # <<>>
    /\ trades[Len(trades)].exit_date = date
    /\ RGt(cfg.slippage, Zero)
    /\ RGt(cfg.commission, Zero)
    /\ RGt(cash, Zero)

\* the loop is about to evaluate the signal of a symbol that cannot act: a
\* hold, a buy on a symbol with an open position, a buy whose cost exceeds the
\* cash, or a sell on a symbol with no open position
InactionableSignalPending ==
    /\ phase = "SIMULATING" /\ pc = "exec" /\ k <= Len(cfg.symbols)
    /\ LET symbol == cfg.symbols[k]
       IN \/ signals[symbol] = "hold"
          \/ signals[symbol] = "buy" /\ symbol \in DOMAIN positions
          \/ UnaffordableBuyPending
          \/ signals[symbol] = "sell" /\ symbol \notin DOMAIN positions

\* C20: evaluating a signal that cannot act changes neither the cash, the
\* positions nor the trade list and passes on to the next symbol; and nothing
\* is carried over: a position is only ever opened for the symbol under
\* evaluation, on a bar whose own signal for it is buy
C20_InactionableSignalNoEffect ==
    [][/\ InactionableSignalPending =>
             /\ cash' = cash
             /\ positions' = positions
             /\ trades' = trades
             /\ phase' = phase
             /\ k' = k + 1
       /\ \A sym \in DOMAIN positions' \ DOMAIN positions :
             /\ pc = "exec" /\ k <= Len(cfg.symbols) /\ sym = cfg.symbols[k]
             /\ signals[sym] = "buy"
             /\ signals = generate_signals(strategy, price_data, i)
             /\ positions'[sym].entry_date = date]_vars

\* C20 witness: the buy signal of this bar found the position opened on an
\* earlier bar and was passed over
C20_Witness ==
    /\ phase = "SIMULATING" /\ pc = "exec" /\ k = 2
    /\ signals[cfg.symbols[1]] = "buy"
    /\ cfg.symbols[1] \in DOMAIN positions
    /\ positions[cfg.symbols[1]].entry_date < date
    /\ cash = RSub(cfg.initial_capital,
                   BuyCost(positions[cfg.symbols[1]].quantity,
                           positions[cfg.symbols[1]].entry_price))

ShortestSeries ==
    CHOOSE m \in {Len(market_data[sym].close) : sym \in DOMAIN market_data} :
        \A sym \in DOMAIN market_data : m <= Len(market_data[sym].close)

\* C22: the simulated length is the length of the shortest series; while bar
\* i is being processed the bars 0..i-1 have one EquityPoint each, in bar
\* order, and the date is i days after the start; a run that has returned
\* after the loop has exactly as many points as the shortest series has bars
C22_OnePointPerBar ==
    /\ phase = "SIMULATING" =>
          /\ min_length = ShortestSeries
          /\ i <= ShortestSeries
          /\ Len(equity_curve) = i
          /\ date = i
          /\ \A j \in 1..i : equity_curve[j].timestamp = market_data[cfg.symbols[1]].timestamps[j]
    /\ (phase = "METRICS_COMPUTED" /\ cfg.symbols # <<>>) =>
          /\ Len(equity_curve) = ShortestSeries
          /\ date = ShortestSeries

\* C22 witness: a run over a first series that is longer than the second has
\* returned with as many EquityPoints as the second series has bars
C22_Witness ==
    /\ phase = "METRICS_COMPUTED"
    /\ Len(market_data[cfg.symbols[1]].close) > Len(market_data[cfg.symbols[2]].close)
    /\ Len(equity_curve) = Len(market_data[cfg.symbols[2]].close)
    /\ Len(equity_curve) >= 2
    /\ date = Len(equity_curve)

\* C23: a step either leaves the trade list as it is or appends one Trade to
\* it, keeping every earlier Trade unchanged and in place; a Trade is appended
\* only by the step that closes a position, for that position's symbol, with
\* the position's entry and the current date as exit
C23_TradesAppendOnly ==
    [][\/ trades' = trades
       \/ /\ Len(trades') = Len(trades) + 1
          /\ \A j \in 1..Len(trades) : trades'[j] = trades[j]
          /\ LET trade == trades'[Len(trades')]
             IN /\ trade.symbol \in DOMAIN positions
                /\ trade.symbol \notin DOMAIN positions'
                /\ trade.entry_date = positions[trade.symbol].entry_date
                /\ trade.entry_price = positions[trade.symbol].entry_price
                /\ trade.quantity = positions[trade.symbol].quantity
                /\ trade.exit_date = date]_vars

\* C23 witness: a second Trade was appended behind the first, both on the
\* current bar, and the run is still simulating
C23_Witness ==
    /\ phase = "SIMULATING" /\ pc = "exec" /\ k = 3
    /\ Len(trades) = 2
    /\ trades[1].symbol = cfg.symbols[1]
    /\ trades[2].symbol = cfg.symbols[2]
    /\ trades[2].exit_date = date
    /\ positions = <<>>

\* C24: the positions map holds at most one Position per symbol, filed under
\* its own symbol, long, with quantity > 0 and entry_price > 0; and a step
\* that opens a position starts from cash > 0 and buys at a close > 0
C24_PositionsWellFormed ==
    [][/\ \A sym \in DOMAIN positions' :
             /\ positions'[sym].symbol = sym
             /\ positions'[sym].side = "long"
             /\ RGt(positions'[sym].quantity, Zero)
             /\ RGt(positions'[sym].entry_price, Zero)
       /\ \A sym \in DOMAIN positions' \ DOMAIN positions :
             /\ RGt(cash, Zero)
             /\ market_data[sym].close[i + 1] > 0]_vars

\* C24 witness: a position is open in a run whose series began with a
\* negative close
C24_Witness ==
    /\ phase = "SIMULATING"
    /\ positions # <<>>
    /\ market_data[cfg.symbols[1]].close[1] < 0
    /\ RGt(positions[cfg.symbols[1]].quantity, Zero)
    /\ RGt(cfg.slippage, Zero)

\* the number of recorded Trades with pnl > 0
Profitable == Cardinality({j \in 1..Len(trades) : RGt(trades[j].pnl, Zero)})

\* C25: the result of a run with at least one trade has total_trades = the
\* number of Trades, winning_trades = the number of Trades with pnl > 0,
\* losing_trades = total_trades - winning_trades, every Trade with pnl <= 0
\* among them, and win_rate = 100 * winning_trades / total_trades (rounded to
\* two decimals)
C25_TradeCounts ==
    (phase = "METRICS_COMPUTED" /\ trades # <<>>) =>
        /\ result.total_trades = Len(trades)
        /\ result.winning_trades = Profitable
        /\ result.losing_trades = Len(trades) - Profitable
        /\ result.losing_trades =
              Cardinality({j \in 1..Len(trades) : RLe(trades[j].pnl, Zero)})
        /\ result.winning_trades + result.losing_trades = result.total_trades
        /\ result.win_rate = Round2(Frac(100 * Profitable, Len(trades)))

\* C25 witness: metrics were computed for one winning Trade and one Trade
\* with pnl exactly 0, which is counted as losing: win_rate 50
C25_Witness ==
    /\ phase = "METRICS_COMPUTED"
    /\ Len(trades) = 2
    /\ RGt(trades[1].pnl, Zero)
    /\ trades[2].pnl = Zero
    /\ result.winning_trades = 1
    /\ result.losing_trades = 1
    /\ result.win_rate = R(50)

\* C26: a Backtest row follows pending -> running -> completed | failed: it
\* is created pending, it is running before the engine runs, it leaves
\* running only for completed (the engine returned, the metrics are stored)
\* or failed (the engine raised, the error is stored), neither of which it
\* leaves again, and a task that returns while the row exists does not leave
\* it running.
JobStep ==
    /\ (job.status = "absent" /\ job'.status # "absent") => job'.status = "pending"
    /\ job.status = "pending" => job'.status \in {"pending", "running", "absent"}
    /\ job.status = "running" => job'.status \in {"running", "completed", "failed", "absent"}
    /\ job.status \in {"completed", "failed"} => job'.status \in {job.status, "absent"}
    /\ (job.task # "none" /\ phase' # phase) => job.status \in {"running", "absent"}
    /\ (job.status # "completed" /\ job'.status = "completed")
          => job'.results = "metrics" /\ phase = "METRICS_COMPUTED"
    /\ (job.status # "failed" /\ job'.status = "failed")
          => job'.results = "error" /\ phase = "FAILED"
    /\ job'.task = "returned" => job'.status # "running"

C26_JobLifecycle == [][JobStep]_vars

\* the symbol whose signal is about to be executed is bought or sold by the step
ChangesPosition(sym) == (sym \in DOMAIN positions) # (sym \in DOMAIN positions')

\* C27: a symbol's position changes at most once per bar, so a position is
\* closed on a later bar than it was opened on: every Trade has exit_date
\* after entry_date, of two Trades of one symbol the later is entered after
\* the earlier was exited, and an open position was entered after every
\* recorded exit of its symbol.
TradesInTurn ==
    /\ \A j \in 1..Len(trades) : trades[j].entry_date < trades[j].exit_date
    /\ \A j \in 1..Len(trades) : \A l \in (j + 1)..Len(trades) :
          trades[j].symbol = trades[l].symbol => trades[j].exit_date < trades[l].entry_date
    /\ \A sym \in DOMAIN positions : \A j \in 1..Len(trades) :
          trades[j].symbol = sym => trades[j].exit_date < positions[sym].entry_date
    /\ \A sym \in DOMAIN positions :
          positions[sym].entry_date < date \/ (positions[sym].entry_date = date /\ pc = "exec")

C27_OneChangePerBar ==
    [][/\ TradesInTurn'
       /\ \A sym \in DOMAIN signals :
             ChangesPosition(sym)
               => /\ \A j \in 1..Len(trades) : trades[j].symbol = sym => trades[j].exit_date < date
                  /\ sym \in DOMAIN positions => positions[sym].entry_date < date]_vars

\* a symbol has been bought, sold on a later bar, bought again and sold again
C27_Witness ==
    /\ Len(trades) = 2
    /\ trades[1].symbol = trades[2].symbol
    /\ trades[1].entry_date < trades[1].exit_date
    /\ trades[1].exit_date < trades[2].entry_date
    /\ trades[2].entry_date < trades[2].exit_date

\* the pnl of all recorded Trades, and the commissions paid on their entries
SummedPnl == RSum([j \in 1..Len(trades) |-> trades[j].pnl])

EntryCommissions ==
    RSum([j \in 1..Len(trades) |->
            RMul(RMul(trades[j].quantity, trades[j].entry_price), cfg.commission)])

\* C28: at the end of a bar on which no position is open, cash minus
\* initial_capital is the summed pnl of the Trades minus the commissions
\* paid on their entries; with no commission that is the summed pnl, and
\* with a commission the summed pnl of the Trades made is more than the
\* change in cash.
C28_CashAccountsForTrades ==
    (phase \in {"SIMULATING", "METRICS_COMPUTED"} /\ pc = "signals" /\ i > 0
       /\ positions = <<>>)
      => /\ RSub(cash, cfg.initial_capital) = RSub(SummedPnl, EntryCommissions)
         /\ cfg.commission = Zero => RSub(cash, cfg.initial_capital) = SummedPnl
         /\ (RGt(cfg.commission, Zero) /\ trades # <<>>)
               => RLt(RSub(cash, cfg.initial_capital), SummedPnl)

\* two positions have been closed under a commission and none is open
C28_Witness ==
    /\ phase = "SIMULATING"
    /\ pc = "signals"
    /\ positions = <<>>
    /\ Len(trades) = 2
    /\ RGt(cfg.commission, Zero)
    /\ RGt(EntryCommissions, Zero)
    /\ RSub(cash, cfg.initial_capital) = RSub(SummedPnl, EntryCommissions)

\* a buy signal on a flat symbol at a positive close is about to be executed
BuyPending ==
    /\ phase = "SIMULATING" /\ pc = "exec" /\ k <= Len(SignalOrder)
    /\ signals[SignalOrder[k]] = "buy"
    /\ SignalOrder[k] \notin DOMAIN positions
    /\ price_data[SignalOrder[k]][i + 1] > 0

\* the step executes every pending buy and leaves the cash of the run above zero
BuyExecutesCashStaysPositive ==
    /\ BuyPending => SignalOrder[k] \in DOMAIN positions'
    /\ phase' \in {"SIMULATING", "METRICS_COMPUTED"} => RGt(cash', Zero)

\* (1 + slippage) * (1 + commission)
CostFactor == RMul(RAdd(One, cfg.slippage), RAdd(One, cfg.commission))

\* C29 as stated: whenever (1 + slippage) * (1 + commission) <= 10 and
\* initial_capital > 0, every buy signal on a flat symbol at a positive close
\* is executed and the cash stays above zero.
C29_BuyNeverRejected ==
    [][(RLe(CostFactor, R(10)) /\ RGt(cfg.initial_capital, Zero))
          => BuyExecutesCashStaysPositive]_vars

\* slippage and commission between 0 and 1, and no negative close
UnitRatesNoNegativeClose ==
    /\ RLe(Zero, cfg.slippage) /\ RLe(cfg.slippage, One)
    /\ RLe(Zero, cfg.commission) /\ RLe(cfg.commission, One)
    /\ \A sym \in DOMAIN provider :
          \A j \in 1..Len(provider[sym].close) : provider[sym].close[j] >= 0

\* C29 amended: whenever slippage and commission lie between 0 and 1 (so that
\* a buy costs at most 0.4 of the cash and a sale pays nothing negative), no
\* close is negative and initial_capital > 0, every buy signal on a flat
\* symbol at a positive close is executed and the cash stays above zero.
C29_BuyNeverRejectedUnitRates ==
    [][(UnitRatesNoNegativeClose /\ RGt(cfg.initial_capital, Zero))
          => BuyExecutesCashStaysPositive]_vars

\* C29 witness: under a slippage and a commission of 1 / RateDen a buy at a
\* positive close was executed for a tenth of the cash times the cost factor,
\* and cash is left
C29_Witness ==
    /\ phase = "SIMULATING"
    /\ UnitRatesNoNegativeClose
    /\ RGt(cfg.commission, Zero)
    /\ RGt(cfg.initial_capital, Zero)
    /\ trades = <<>>
    /\ positions # <<>>
    /\ cash = RSub(cfg.initial_capital,
                   RMul(PositionValue(cfg.initial_capital), CostFactor))
    /\ RGt(cash, Zero)

\* C30: the returned equity_curve has one entry per simulated bar, in bar
\* order, when at least one trade was closed, and is empty when none was,
\* whatever was simulated and whatever is still held.
C30_ResultCurveOnlyWithTrades ==
    phase = "METRICS_COMPUTED" =>
        /\ trades # <<>> =>
              /\ Len(result.equity_curve) = i
              /\ i = min_length
              /\ \A j \in 1..i :
                    /\ result.equity_curve[j].timestamp
                          = market_data[cfg.symbols[1]].timestamps[j]
                    /\ result.equity_curve[j].equity = Round2(equity_curve[j].equity)
        /\ trades = <<>> => result.equity_curve = <<>>

\* C30 witness: bars were simulated, no trade was closed, a position is still
\* open and the equity has moved, and the returned equity_curve is empty
C30_Witness ==
    /\ phase = "METRICS_COMPUTED"
    /\ i >= 2
    /\ Len(equity_curve) = i
    /\ trades = <<>>
    /\ positions # <<>>
    /\ equity # cfg.initial_capital
    /\ result.equity_curve = <<>>

====
